---- MODULE Spec2Model ----
(***************************************************************************)
(* Model of the client repository of src/maim.py (class ClientDatabase):   *)
(* two PostgreSQL tables, clients and phones, and the operations that the  *)
(* class runs against them through one autocommit connection.              *)
(*                                                                         *)
(* A text value is a sequence of one-character strings.  The SQL NULL of   *)
(* a text column is the one-element sequence NULL, whose element is no     *)
(* character of the alphabet.  Every statement is run in autocommit mode   *)
(* (line 34), so a statement that raises leaves both tables as they were.  *)
(* The store is taken to be reachable: no statement fails for a reason     *)
(* other than a constraint of the schema, and every text value fits the    *)
(* width of its column.                                                    *)
(***************************************************************************)
EXTENDS Integers, Sequences, FiniteSets, TLC

\* ------------------------------------------------------------------ bounds
\* Largest value the sequence behind clients.client_id may reach.
MaxId == 2

\* Largest value of the sequence in the specification of creates and deletes.
MaxCreates == 3

\* How many times the program is started on the same database.
MaxRuns == 3

\* ------------------------------------------------------------ input domains
\* SQL NULL of a text column; Python None of an Optional is the empty
\* sequence NoResult, and a present value v is <<v>>.
NULL == <<"NULL">>
NoResult == <<>>

\* phones=None of add_client: a list that holds no number, only the marker.
NoneList == <<NULL>>

\* The values the operations are called with.  A text value keeps the
\* characters that decide a comparison: letters in both cases, digits, and
\* the LIKE wildcards % and _ (the escape character \ is not among them).
\* Two emails, one of them empty: the UNIQUE constraint then lets at most
\* two clients exist at once.
\* The names add_client is called with: (first_name, last_name).
Names == { << <<"I", "v">>, <<"I", "v">> >>, << <<"a">>, <<"b">> >> }
Emails     == { <<"a">>, <<>> }
PhoneNumbers == { <<"7", "1">>, <<"7", "2">> }

\* The ids the operations are called with; an id is missing from the table
\* before the sequence reaches it and after its client is deleted.
ClientIds == 1..MaxId

\* Keyword arguments: a function from the supplied keys to their values.
\* Every subset of keys is supplied, each key with its one value of vals.
KwargsOver(keys, vals) ==
    { [k \in S |-> vals[k]] : S \in SUBSET keys }

UpdateValues ==
    [first_name |-> <<"a">>, last_name |-> <<"b">>, email |-> <<"a">>]

\* update_client(id, **kwargs): the recognized keys, or one it does not know.
UpdateKwargs ==
    KwargsOver({"first_name", "last_name", "email"}, UpdateValues)
      \cup { [k \in {"phone"} |-> <<"7">>] }

\* find_client(**kwargs): no key, each recognized key alone, a column with
\* a phone, all four keys, a key it does not know, and values that hold the
\* characters _ and %.
FindKwargs ==
    { <<>>,
      [first_name |-> <<"i">>],
      [last_name |-> <<"B">>],
      [email |-> <<"A">>],
      [phone |-> <<"1">>],
      [first_name |-> <<"i">>, phone |-> <<"1">>],
      [first_name |-> <<"i">>, last_name |-> <<"B">>, email |-> <<"A">>,
       phone |-> <<"7">>],
      [client_id |-> <<"1">>],
      [first_name |-> <<"_">>],
      [phone |-> <<"7", "%", "2">>] }

\* ------------------------------------------------------------------- state
VARIABLES
    clients,      \* table clients: set of rows, client_id is the key
    phones,       \* table phones: rows in insertion order
    clients_seq,  \* last value of the sequence of clients.client_id
    op,           \* the operation that ran last
    args,         \* its arguments
    ret,          \* its return value
    before,       \* the row counts of both tables when it was called
    driver        \* the running program: its position, its connection, its locals

vars == <<clients, phones, clients_seq, op, args, ret, before, driver>>

\* History: how many rows each table held when the operation started.
RowCounts == [clients |-> Cardinality(clients), phones |-> Len(phones)]

\* ------------------------------------------------------------- the schema
\* SELECT client_id FROM clients WHERE client_id = %s ... fetchone()
ClientExists(cl, client_id) == \E c \in cl : c.client_id = client_id

ClientRow(cl, client_id) == CHOOSE c \in cl : c.client_id = client_id

\* Mutant of EmailTaken: the column email without its UNIQUE constraint.
EmailTakenWithoutUnique(cl, email, self_id) == FALSE

\* email VARCHAR(100) UNIQUE: another row already holds this email.
EmailTaken(cl, email, self_id) ==
    \E c \in cl : c.client_id # self_id /\ c.email = email

\* email / first_name / last_name ... NOT NULL
NotNullViolated(v) == v = NULL

\* phone_number VARCHAR(20) UNIQUE: some row already holds this number.
PhoneTaken(ph, phone) ==
    phone # NULL /\ \E i \in 1..Len(ph) : ph[i].phone_number = phone

\* Mutant of InsertPhone: ON CONFLICT (phone_number) DO UPDATE SET client_id,
\* which hands a taken number over to the new client.
InsertPhoneTakingOver(ph, client_id, phone) ==
    LET row == [client_id |-> client_id, phone_number |-> phone]
    IN  IF PhoneTaken(ph, phone)
        THEN [table |-> [i \in DOMAIN ph |->
                           IF ph[i].phone_number = phone THEN row ELSE ph[i]],
              returning |-> <<row>>]
        ELSE [table |-> Append(ph, row), returning |-> <<row>>]

\* INSERT INTO phones ... ON CONFLICT (phone_number) DO NOTHING RETURNING
\* phone_id: the table afterwards and the rows the statement returns.
InsertPhone(ph, client_id, phone) ==
    LET row == [client_id |-> client_id, phone_number |-> phone]
    IN  IF PhoneTaken(ph, phone)
        THEN [table |-> ph, returning |-> <<>>]
        ELSE [table |-> Append(ph, row), returning |-> <<row>>]

\* Mutant of CascadeDelete: the phone rows of a deleted client are kept.
CascadeDeleteKeepingRows(ph, client_id) == ph

\* REFERENCES clients(client_id) ON DELETE CASCADE
CascadeDelete(ph, client_id) ==
    SelectSeq(ph, LAMBDA r : r.client_id # client_id)

\* DELETE FROM phones WHERE client_id = %s AND phone_number = %s RETURNING
\* phone_id: the table afterwards and the rows the statement returns.
DeletePhoneRows(ph, client_id, phone) ==
    [table |-> SelectSeq(ph, LAMBDA r :
                  ~(r.client_id = client_id /\ r.phone_number = phone)),
     returning |-> SelectSeq(ph, LAMBDA r :
                  r.client_id = client_id /\ r.phone_number = phone)]

\* ---------------------------------------------------------------- add_phone
\* The body of add_phone on the tables: the phones table afterwards and the
\* value returned.
AddPhoneResult(cl, ph, client_id, phone) ==
    IF ~ClientExists(cl, client_id)
    THEN [table |-> ph, result |-> FALSE]
    ELSE LET ins == InsertPhone(ph, client_id, phone)
         IN  [table |-> ins.table, result |-> ins.returning # <<>>]

add_phone(client_id, phone) ==
    LET r == AddPhoneResult(clients, phones, client_id, phone)
    IN  /\ phones' = r.table
        /\ op' = "add_phone"
        /\ args' = [client_id |-> client_id, phone |-> phone]
        /\ ret' = r.result
        /\ before' = RowCounts
        /\ UNCHANGED <<clients, clients_seq>>

\* --------------------------------------------------------------- add_client
\* Mutant of AddPhones: the loop ends at the first number that add_phone
\* refuses.
RECURSIVE AddPhonesUntilRefused(_, _, _, _)
AddPhonesUntilRefused(cl, ph, client_id, list) ==
    IF list = <<>>
    THEN ph
    ELSE LET r == AddPhoneResult(cl, ph, client_id, Head(list))
         IN  IF r.result
             THEN AddPhonesUntilRefused(cl, r.table, client_id, Tail(list))
             ELSE ph

\* for phone in phones: self.add_phone(client_id, phone)
RECURSIVE AddPhones(_, _, _, _)
AddPhones(cl, ph, client_id, list) ==
    IF list = <<>>
    THEN ph
    ELSE AddPhones(cl, AddPhoneResult(cl, ph, client_id, Head(list)).table,
                   client_id, Tail(list))

\* phones of add_client: None, one number, two distinct numbers, the same
\* number twice.
PhoneLists ==
    { NoneList, << <<"7", "1">> >>, << <<"7", "1">>, <<"7", "2">> >>,
      << <<"7", "2">>, <<"7", "2">> >> }

ClientIdsOfRows(cl) == { c.client_id : c \in cl }

\* Largest client_id among the rows, 0 for the empty table.
MaxRowId(cl) ==
    IF cl = {} THEN 0
    ELSE CHOOSE m \in ClientIdsOfRows(cl) : \A n \in ClientIdsOfRows(cl) : n <= m

\* Mutant of NextClientId: the id is one more than the largest id in the
\* table (SELECT MAX(client_id) + 1) instead of the value of the sequence.
NextClientIdFromRows(cl, seq) == MaxRowId(cl) + 1

\* client_id SERIAL ... RETURNING client_id: the next value of the sequence.
NextClientId(cl, seq) == seq + 1

\* The INSERT draws the next client_id from the sequence before the
\* constraints are checked, so a refused INSERT uses the value up as well.
\* created_at is the logical time of the INSERT.
AddClient(first_name, last_name, email, phone_list) ==
    /\ clients_seq' = clients_seq + 1
    /\ op' = "add_client"
    /\ before' = RowCounts
    /\ args' = [first_name |-> first_name, last_name |-> last_name,
                email |-> email, phones |-> phone_list]
    /\ IF EmailTaken(clients, email, 0) \/ NotNullViolated(email)
       THEN /\ ret' = -1
            /\ UNCHANGED <<clients, phones>>
       ELSE LET client_id == NextClientId(clients, clients_seq)
                cl2 == clients \cup
                         {[client_id |-> client_id, first_name |-> first_name,
                           last_name |-> last_name, email |-> email,
                           created_at |-> client_id]}
            IN  /\ clients' = cl2
                /\ phones' = IF phone_list = NoneList \/ phone_list = <<>>
                             THEN phones
                             ELSE AddPhones(cl2, phones, client_id, phone_list)
                /\ ret' = client_id

\* add_client while the sequence is below the bound of the model.
add_client(first_name, last_name, email, phone_list) ==
    /\ clients_seq < MaxId
    /\ AddClient(first_name, last_name, email, phone_list)

\* ------------------------------------------------------------ update_client
\* The keys update_client looks for in kwargs (lines 205-215).
UpdateFields == {"first_name", "last_name", "email"}

\* Mutant of UpdateRow: the first_name branch names the column last_name.
UpdateRowWrongColumn(row, kwargs) ==
    [row EXCEPT
       !.last_name  = IF "first_name" \in DOMAIN kwargs THEN kwargs.first_name
                      ELSE IF "last_name" \in DOMAIN kwargs THEN kwargs.last_name
                      ELSE @,
       !.email      = IF "email" \in DOMAIN kwargs THEN kwargs.email ELSE @]

\* UPDATE clients SET <the supplied columns> WHERE client_id = %s, on one row
UpdateRow(row, kwargs) ==
    [row EXCEPT
       !.first_name = IF "first_name" \in DOMAIN kwargs THEN kwargs.first_name ELSE @,
       !.last_name  = IF "last_name" \in DOMAIN kwargs THEN kwargs.last_name ELSE @,
       !.email      = IF "email" \in DOMAIN kwargs THEN kwargs.email ELSE @]

\* The UPDATE raises: the new email is held by another row, or is NULL.
UpdateRaises(cl, client_id, kwargs) ==
    /\ "email" \in DOMAIN kwargs
    /\ \/ EmailTaken(cl, kwargs.email, client_id)
       \/ NotNullViolated(kwargs.email)

\* if not update_fields: return False
NoUpdateFields(kwargs) == DOMAIN kwargs \cap UpdateFields = {}

update_client(client_id, kwargs) ==
    /\ op' = "update_client"
    /\ before' = RowCounts
    /\ args' = [client_id |-> client_id, kwargs |-> kwargs]
    /\ UNCHANGED <<phones, clients_seq>>
    /\ IF ~ClientExists(clients, client_id)
       THEN ret' = FALSE /\ UNCHANGED clients
       ELSE IF NoUpdateFields(kwargs)
       THEN ret' = FALSE /\ UNCHANGED clients
       ELSE IF UpdateRaises(clients, client_id, kwargs)
       THEN ret' = FALSE /\ UNCHANGED clients
       ELSE /\ clients' = { IF c.client_id = client_id
                            THEN UpdateRow(c, kwargs) ELSE c : c \in clients }
            /\ ret' = TRUE

\* ------------------------------------------------------------- delete_phone
delete_phone(client_id, phone) ==
    /\ op' = "delete_phone"
    /\ before' = RowCounts
    /\ args' = [client_id |-> client_id, phone |-> phone]
    /\ UNCHANGED <<clients, clients_seq>>
    /\ IF ~ClientExists(clients, client_id)
       THEN ret' = FALSE /\ UNCHANGED phones
       ELSE LET del == DeletePhoneRows(phones, client_id, phone)
            IN  /\ phones' = del.table
                /\ ret' = (del.returning # <<>>)

\* ------------------------------------------------------------ delete_client
delete_client(client_id) ==
    /\ op' = "delete_client"
    /\ before' = RowCounts
    /\ args' = [client_id |-> client_id]
    /\ UNCHANGED clients_seq
    /\ IF ~ClientExists(clients, client_id)
       THEN ret' = FALSE /\ UNCHANGED <<clients, phones>>
       ELSE /\ clients' = { c \in clients : c.client_id # client_id }
            /\ phones' = CascadeDelete(phones, client_id)
            /\ ret' = TRUE

\* ------------------------------------------------------------------ ILIKE
\* Case folding of one character, as ILIKE folds both operands.
LowerChar(c) ==
    CASE c = "I" -> "i"
      [] c = "A" -> "a"
      [] c = "B" -> "b"
      [] OTHER   -> c

LowerText(t) == [i \in 1..Len(t) |-> LowerChar(t[i])]

\* text LIKE pattern: % stands for any run of characters, _ for any one.
RECURSIVE LikeMatch(_, _)
LikeMatch(t, pattern) ==
    IF pattern = <<>>
    THEN t = <<>>
    ELSE IF Head(pattern) = "%"
    THEN \/ LikeMatch(t, Tail(pattern))
         \/ t # <<>> /\ LikeMatch(Tail(t), pattern)
    ELSE /\ t # <<>>
         /\ Head(pattern) = "_" \/ Head(pattern) = Head(t)
         /\ LikeMatch(Tail(t), Tail(pattern))

\* column ILIKE %s: NULL ILIKE anything is not true.
ILike(v, pattern) ==
    v # NULL /\ LikeMatch(LowerText(v), LowerText(pattern))

\* f"%{value}%"
Wrap(value) == <<"%">> \o value \o <<"%">>

\* -------------------------------------------------------- the joined rows
\* Rows of a set of client rows, ORDER BY c.client_id.
RECURSIVE OrderById(_)
OrderById(cl) ==
    IF cl = {}
    THEN <<>>
    ELSE LET first == CHOOSE c \in cl : \A d \in cl : c.client_id <= d.client_id
         IN  <<first>> \o OrderById(cl \ {first})

\* clients c LEFT JOIN phones p ON c.client_id = p.client_id, for one c:
\* the p.phone_number of each joined row; one row of NULL when c owns none.
JoinedPhones(ph, c) ==
    LET own == SelectSeq(ph, LAMBDA r : r.client_id = c.client_id)
    IN  IF own = <<>>
        THEN <<NULL>>
        ELSE [i \in 1..Len(own) |-> own[i].phone_number]

\* ARRAY_AGG(p.phone_number) over the rows of a group; the group is never empty.
ArrayAgg(values) == [isnull |-> FALSE, elems |-> values]

\* ARRAY_AGG(p.phone_number) FILTER (WHERE p.phone_number IS NOT NULL):
\* NULL when the filter leaves no row.
ArrayAggFilter(values) ==
    LET kept == SelectSeq(values, LAMBDA v : v # NULL)
    IN  IF kept = <<>>
        THEN [isnull |-> TRUE, elems |-> <<>>]
        ELSE [isnull |-> FALSE, elems |-> kept]

\* row[5] if row[5] else []
OrEmptyList(array) ==
    IF array.isnull \/ array.elems = <<>> THEN <<>> ELSE array.elems

\* The dict built from a result row.
ClientDict(c, array) ==
    [client_id |-> c.client_id, first_name |-> c.first_name,
     last_name |-> c.last_name, email |-> c.email,
     created_at |-> c.created_at, phones |-> OrEmptyList(array)]

\* -------------------------------------------------------------- find_client
\* The keys find_client looks for in kwargs (lines 332-346).
ClientFilters == {"first_name", "last_name", "email"}
FindFilters == ClientFilters \cup {"phone"}

\* if not conditions: return []
NoConditions(kwargs) == DOMAIN kwargs \cap FindFilters = {}

\* The conditions on the columns of c, joined with AND.
ClientConditions(c, kwargs) ==
    \A k \in DOMAIN kwargs \cap ClientFilters : ILike(c[k], Wrap(kwargs[k]))

\* The condition on p.phone_number of one joined row.
PhoneCondition(v, kwargs) ==
    "phone" \in DOMAIN kwargs => ILike(v, Wrap(kwargs.phone))

\* The joined rows of c that pass WHERE.
RowsWhere(ph, c, kwargs) ==
    IF ClientConditions(c, kwargs)
    THEN SelectSeq(JoinedPhones(ph, c), LAMBDA v : PhoneCondition(v, kwargs))
    ELSE <<>>

\* The query of find_client: GROUP BY the client, ORDER BY c.client_id.
FindRows(cl, ph, kwargs) ==
    LET groups == OrderById({ c \in cl : RowsWhere(ph, c, kwargs) # <<>> })
    IN  [i \in 1..Len(groups) |->
           ClientDict(groups[i], ArrayAggFilter(RowsWhere(ph, groups[i], kwargs)))]

\* Mutant of FindResult: without the guard, no condition selects every client.
FindResultUnguarded(cl, ph, kwargs) == FindRows(cl, ph, kwargs)

FindResult(cl, ph, kwargs) ==
    IF NoConditions(kwargs) THEN <<>> ELSE FindRows(cl, ph, kwargs)

find_client(kwargs) ==
    /\ op' = "find_client"
    /\ before' = RowCounts
    /\ args' = [kwargs |-> kwargs]
    /\ ret' = FindResult(clients, phones, kwargs)
    /\ UNCHANGED <<clients, phones, clients_seq>>

\* ---------------------------------------------------------- get_client_info
\* None is NoResult, a dict d is <<d>>.
GetClientResult(cl, ph, client_id) ==
    IF ClientExists(cl, client_id)
    THEN LET c == ClientRow(cl, client_id)
         IN  <<ClientDict(c, ArrayAgg(JoinedPhones(ph, c)))>>
    ELSE NoResult

get_client_info(client_id) ==
    /\ op' = "get_client_info"
    /\ before' = RowCounts
    /\ args' = [client_id |-> client_id]
    /\ ret' = GetClientResult(clients, phones, client_id)
    /\ UNCHANGED <<clients, phones, clients_seq>>

\* ---------------------------------------------------------- get_all_clients
GetAllResult(cl, ph) ==
    LET rows == OrderById(cl)
    IN  [i \in 1..Len(rows) |->
           ClientDict(rows[i], ArrayAgg(JoinedPhones(ph, rows[i])))]

get_all_clients ==
    /\ op' = "get_all_clients"
    /\ before' = RowCounts
    /\ args' = <<>>
    /\ ret' = GetAllResult(clients, phones)
    /\ UNCHANGED <<clients, phones, clients_seq>>

\* A program that has just been started, for the n-th time: no connection
\* yet, the menu of the entry point is next.
Started(n) ==
    [pc |-> "menu", connection |-> "none", closes |-> 0, runs |-> n,
     client1_id |-> 0, client2_id |-> 0, client3_id |-> 0]

Init ==
    /\ clients = {}
    /\ phones = <<>>
    /\ clients_seq = 0
    /\ op = "init"
    /\ args = <<>>
    /\ ret = FALSE
    /\ before = [clients |-> 0, phones |-> 0]
    /\ driver = Started(1)

Next ==
    \/ \E n \in Names, e \in Emails, pl \in PhoneLists :
          add_client(n[1], n[2], e, pl) /\ UNCHANGED driver
    \/ \E c \in ClientIds, p \in PhoneNumbers :
          add_phone(c, p) /\ UNCHANGED driver
    \/ \E c \in ClientIds, kw \in UpdateKwargs :
          update_client(c, kw) /\ UNCHANGED driver
    \/ \E c \in ClientIds, p \in PhoneNumbers :
          delete_phone(c, p) /\ UNCHANGED driver
    \/ \E c \in ClientIds : delete_client(c) /\ UNCHANGED driver
    \/ \E kw \in FindKwargs : find_client(kw) /\ UNCHANGED driver
    \/ \E c \in ClientIds : get_client_info(c) /\ UNCHANGED driver
    \/ get_all_clients /\ UNCHANGED driver

Spec == Init /\ [][Next]_vars

\* ------------------------------------------------- creates and deletes only
\* The repository used for add_client and delete_client alone, which lets
\* the sequence run further: a refused create, a delete and a later create.
create_client(first_name, last_name, email, phone_list) ==
    /\ clients_seq < MaxCreates
    /\ AddClient(first_name, last_name, email, phone_list)

CreateNext ==
    \/ \E n \in Names, e \in Emails, pl \in PhoneLists :
          create_client(n[1], n[2], e, pl) /\ UNCHANGED driver
    \/ \E c \in 1..MaxCreates : delete_client(c) /\ UNCHANGED driver

CreateSpec == Init /\ [][CreateNext]_vars

\* ================================================================ the driver
\* The entry point and its two modes, demonstrate_functions and simple_test,
\* run statement by statement against the repository above.  The database
\* outlives the program, so a later run finds the rows of the earlier ones.
\* The literals of the driver, names written in Latin letters.
Ivan == <<"I", "v", "a", "n">>
Ivanov == <<"I", "v", "a", "n", "o", "v">>
Petr == <<"P", "e", "t", "r">>
Petrov == <<"P", "e", "t", "r", "o", "v">>
Pyotr == <<"P", "y", "o", "t", "r">>
Maria == <<"M", "a", "r", "i", "a">>
Sidorova == <<"S", "i", "d", "o", "r", "o", "v", "a">>
Test == <<"T", "e", "s", "t">>
Testov == <<"T", "e", "s", "t", "o", "v">>
IvanovEmail == <<"i", "v", "a", "n", "o", "v", "@", "e", "x", "a", "m", "p", "l", "e", ".", "c", "o", "m">>
PetrovEmail == <<"p", "e", "t", "r", "o", "v", "@", "e", "x", "a", "m", "p", "l", "e", ".", "c", "o", "m">>
SidorovaEmail == <<"s", "i", "d", "o", "r", "o", "v", "a", "@", "e", "x", "a", "m", "p", "l", "e", ".", "c", "o", "m">>
NewPetrovEmail == <<"n", "e", "w", "_", "p", "e", "t", "r", "o", "v", "@", "e", "x", "a", "m", "p", "l", "e", ".", "c", "o", "m">>
TestEmail == <<"t", "e", "s", "t", "@", "t", "e", "s", "t", ".", "c", "o", "m">>
ExampleText == <<"e", "x", "a", "m", "p", "l", "e">>
Phone79161234567 == <<"+", "7", "9", "1", "6", "1", "2", "3", "4", "5", "6", "7">>
Phone74951234567 == <<"+", "7", "4", "9", "5", "1", "2", "3", "4", "5", "6", "7">>
Phone79169876543 == <<"+", "7", "9", "1", "6", "9", "8", "7", "6", "5", "4", "3">>
Phone79167778899 == <<"+", "7", "9", "1", "6", "7", "7", "7", "8", "8", "9", "9">>
Phone79031112233 == <<"+", "7", "9", "0", "3", "1", "1", "1", "2", "2", "3", "3">>
Phone79990000000 == <<"+", "7", "9", "9", "9", "0", "0", "0", "0", "0", "0", "0">>
Prefix7916 == <<"+", "7", "9", "1", "6">>

repository == <<clients, phones, clients_seq, op, args, ret, before>>

At(pc) == driver.pc = pc

Goto(pc) == driver' = [driver EXCEPT !.pc = pc]

\* ClientDatabase(...): psycopg2.connect succeeded (lines 24-36).
Connected(d, pc) == [d EXCEPT !.pc = pc, !.connection = "open"]

\* if self.connection: self.cursor.close(); self.connection.close()
CloseConnection(d) ==
    IF d.connection = "none"
    THEN d
    ELSE [d EXCEPT !.connection = "closed", !.closes = @ + 1]

\* ', '.join(client['phones']) raises TypeError when the list holds None.
ShowRaises(list) ==
    \E i \in DOMAIN list :
       \E j \in DOMAIN list[i].phones : list[i].phones[j] = NULL

\* show_all_clients: get_all_clients, then one block of lines per client.
\* Nothing around the call catches the TypeError, so the program ends there.
show_all_clients(pc) ==
    /\ get_all_clients
    /\ IF ShowRaises(ret') THEN Goto("raised") ELSE Goto(pc)

\* choice "3": the program leaves without connecting.
menu_exit ==
    /\ At("menu")
    /\ Goto("ended")
    /\ UNCHANGED repository

\* choice "1" (or anything else): demonstrate_functions connects.
demo_connect ==
    /\ At("menu")
    /\ driver' = Connected(driver, "demo_create_tables")
    /\ UNCHANGED repository

\* except Exception: ... return (lines 534-540)
demo_connect_fails ==
    /\ At("menu")
    /\ Goto("ended")
    /\ UNCHANGED repository

\* db.create_tables(): CREATE TABLE IF NOT EXISTS, the rows stay.
demo_create_tables ==
    /\ At("demo_create_tables")
    /\ Goto("demo_add_client1")
    /\ UNCHANGED repository

demo_add_client1 ==
    /\ At("demo_add_client1")
    /\ AddClient(Ivan, Ivanov, IvanovEmail,
                 <<Phone79161234567, Phone74951234567>>)
    /\ driver' = [driver EXCEPT !.pc = "demo_add_client2", !.client1_id = ret']

demo_add_client2 ==
    /\ At("demo_add_client2")
    /\ AddClient(Petr, Petrov, PetrovEmail, <<Phone79169876543>>)
    /\ driver' = [driver EXCEPT !.pc = "demo_add_client3", !.client2_id = ret']

demo_add_client3 ==
    /\ At("demo_add_client3")
    /\ AddClient(Maria, Sidorova, SidorovaEmail, NoneList)
    /\ driver' = [driver EXCEPT !.pc = "demo_add_phone3", !.client3_id = ret']

demo_add_phone3 ==
    /\ At("demo_add_phone3")
    /\ add_phone(driver.client3_id, Phone79167778899)
    /\ Goto("demo_add_phone1")

demo_add_phone1 ==
    /\ At("demo_add_phone1")
    /\ add_phone(driver.client1_id, Phone79031112233)
    /\ Goto("demo_find_first_name")

demo_find_first_name ==
    /\ At("demo_find_first_name")
    /\ find_client([first_name |-> Ivan])
    /\ Goto("demo_find_phone")

demo_find_phone ==
    /\ At("demo_find_phone")
    /\ find_client([phone |-> Prefix7916])
    /\ Goto("demo_find_email")

demo_find_email ==
    /\ At("demo_find_email")
    /\ find_client([email |-> ExampleText])
    /\ Goto("demo_update_client")

demo_update_client ==
    /\ At("demo_update_client")
    /\ update_client(driver.client2_id,
                     [first_name |-> Pyotr, email |-> NewPetrovEmail])
    /\ Goto("demo_show_updated")

demo_show_updated ==
    /\ At("demo_show_updated")
    /\ show_all_clients("demo_delete_phone")

demo_delete_phone ==
    /\ At("demo_delete_phone")
    /\ delete_phone(driver.client1_id, Phone74951234567)
    /\ Goto("demo_delete_client")

demo_delete_client ==
    /\ At("demo_delete_client")
    /\ delete_client(driver.client3_id)
    /\ Goto("demo_show_final")

demo_show_final ==
    /\ At("demo_show_final")
    /\ show_all_clients("demo_close_connection")

demo_close_connection ==
    /\ At("demo_close_connection")
    /\ driver' = [CloseConnection(driver) EXCEPT !.pc = "ended"]
    /\ UNCHANGED repository

\* choice "2": simple_test connects, outside any try.
test_connect ==
    /\ At("menu")
    /\ driver' = Connected(driver, "test_create_tables")
    /\ UNCHANGED repository

\* __init__ re-raises the connection error and simple_test lets it through.
test_connect_fails ==
    /\ At("menu")
    /\ Goto("raised")
    /\ UNCHANGED repository

test_create_tables ==
    /\ At("test_create_tables")
    /\ Goto("test_add_client")
    /\ UNCHANGED repository

test_add_client ==
    /\ At("test_add_client")
    /\ AddClient(Test, Testov, TestEmail, <<Phone79990000000>>)
    /\ Goto("test_find_client")

test_find_client ==
    /\ At("test_find_client")
    /\ find_client([last_name |-> Testov])
    /\ Goto("test_close_connection")

test_close_connection ==
    /\ At("test_close_connection")
    /\ driver' = [CloseConnection(driver) EXCEPT !.pc = "ended"]
    /\ UNCHANGED repository

\* The program is started again on the same database.
run_again ==
    /\ driver.pc \in {"ended", "raised"}
    /\ driver.runs < MaxRuns
    /\ driver' = Started(driver.runs + 1)
    /\ UNCHANGED repository

DriverNext ==
    \/ menu_exit
    \/ demo_connect
    \/ demo_connect_fails
    \/ demo_create_tables
    \/ demo_add_client1
    \/ demo_add_client2
    \/ demo_add_client3
    \/ demo_add_phone3
    \/ demo_add_phone1
    \/ demo_find_first_name
    \/ demo_find_phone
    \/ demo_find_email
    \/ demo_update_client
    \/ demo_show_updated
    \/ demo_delete_phone
    \/ demo_delete_client
    \/ demo_show_final
    \/ demo_close_connection
    \/ test_connect
    \/ test_connect_fails
    \/ test_create_tables
    \/ test_add_client
    \/ test_find_client
    \/ test_close_connection
    \/ run_again

DriverSpec == Init /\ [][DriverNext]_vars

\* =================================================================== claims
\* What the tables hold, stated on the rows themselves.
Elems(list) == { list[i] : i \in DOMAIN list }

OwnedNumbers(ph, client_id) ==
    { ph[i].phone_number : i \in { j \in DOMAIN ph : ph[j].client_id = client_id } }

ClientIdsOf(cl) == { c.client_id : c \in cl }

\* A returned list of records holds each client at most once, ids ascending.
AscendingIds(list) ==
    \A i, j \in DOMAIN list : i < j => list[i].client_id < list[j].client_id

\* A record's phones is the list of the numbers its client owns, each once.
CompletePhones(ph, record) ==
    /\ Elems(record.phones) = OwnedNumbers(ph, record.client_id)
    /\ Len(record.phones) = Cardinality(OwnedNumbers(ph, record.client_id))

SuppliesFilter(kwargs) ==
    \E k \in DOMAIN kwargs : k \in {"first_name", "last_name", "email", "phone"}

SuppliesField(kwargs) ==
    \E k \in DOMAIN kwargs : k \in {"first_name", "last_name", "email"}

\* C1: every record find_client returns for a non-empty filter set carries
\* the complete list of its client's numbers (the empty list when it owns
\* none), and the result holds each matching client once, ids ascending.
C1_FindReturnsCompletePhones ==
    (op = "find_client" /\ SuppliesFilter(args.kwargs)) =>
        /\ AscendingIds(ret)
        /\ \A i \in DOMAIN ret : CompletePhones(phones, ret[i])

\* C2: get_all_clients returns one record per existing client, ids
\* ascending, each with exactly the numbers the client owns (the empty list
\* when it owns none).
C2_ListAllExact ==
    (op = "get_all_clients") =>
        /\ AscendingIds(ret)
        /\ { ret[i].client_id : i \in DOMAIN ret } = ClientIdsOf(clients)
        /\ Len(ret) = Cardinality(clients)
        /\ \A i \in DOMAIN ret : CompletePhones(phones, ret[i])

NoOrphanPhones(cl, ph) ==
    \A i \in DOMAIN ph : ph[i].client_id \in ClientIdsOf(cl)

DeleteClientEffect ==
    (op' = "delete_client") =>
        LET id == args'.client_id
        IN  IF id \in ClientIdsOf(clients)
            THEN /\ ret' = TRUE
                 /\ clients' = { c \in clients : c.client_id # id }
                 /\ phones' = SelectSeq(phones, LAMBDA r : r.client_id # id)
            ELSE /\ ret' = FALSE
                 /\ clients' = clients
                 /\ phones' = phones

\* C3: no phone row ever references a client id absent from clients;
\* delete_client on an existing client returns true and removes exactly that
\* client row and every phone row it owns, all else unchanged; on a missing
\* id it returns false and changes nothing.
C3_DeleteCascades ==
    [][NoOrphanPhones(clients', phones') /\ DeleteClientEffect]_vars

\* A client that owned phones was deleted, its rows went with it, and
\* another client's rows stayed.
C3_Witness ==
    /\ op = "delete_client"
    /\ ret = TRUE
    /\ before.phones > Len(phones)
    /\ phones # <<>>
    /\ before.clients = Cardinality(clients) + 1

NumberOwned(ph, phone) == \E i \in DOMAIN ph : ph[i].phone_number = phone

OneOwnerPerNumber(ph) ==
    \A i, j \in DOMAIN ph : ph[i].phone_number = ph[j].phone_number => i = j

AddPhoneEffect ==
    (op' = "add_phone") =>
        LET id == args'.client_id
            number == args'.phone
            free == id \in ClientIdsOf(clients) /\ ~NumberOwned(phones, number)
        IN  /\ ret' = TRUE => free
            /\ ret' = TRUE =>
                 /\ clients' = clients
                 /\ phones' = Append(phones, [client_id |-> id, phone_number |-> number])
            /\ ~free =>
                 /\ ret' = FALSE
                 /\ clients' = clients
                 /\ phones' = phones

\* C4: add_phone returns true only when the client exists and no client owns
\* the number, and then adds exactly one row owned by client_id; when the
\* client is missing or the number is owned by any client it returns false
\* and leaves both tables unchanged; a number is owned by at most one client
\* at all times.
C4_AddPhoneKeepsOwnership ==
    [][OneOwnerPerNumber(phones') /\ AddPhoneEffect]_vars

\* add_phone was refused for a number that another client owns.
C4_Witness ==
    /\ op = "add_phone"
    /\ ret = FALSE
    /\ args.client_id \in ClientIdsOf(clients)
    /\ \E i \in DOMAIN phones :
          /\ phones[i].phone_number = args.phone
          /\ phones[i].client_id # args.client_id

UniqueEmails(cl) == \A c, d \in cl : c.email = d.email => c = d

AddClientDuplicateEffect ==
    (op' = "add_client" /\ \E c \in clients : c.email = args'.email) =>
        /\ ret' = -1
        /\ clients' = clients
        /\ phones' = phones

\* C5: add_client with an email that an existing client has returns -1,
\* creates no client row and adds none of the supplied phones; no two client
\* rows ever share an email.
C5_DuplicateEmailFails ==
    [][UniqueEmails(clients') /\ AddClientDuplicateEffect]_vars

\* add_client was called with a taken email and a list that holds a number
\* no client owns.
C5_Witness ==
    /\ op = "add_client"
    /\ ret = -1
    /\ args.email # <<>>
    /\ \E c \in clients : c.email = args.email
    /\ args.phones # NoneList
    /\ \E i \in DOMAIN args.phones : ~NumberOwned(phones, args.phones[i])

\* C6: add_client with an empty email returns the failure value and creates
\* no client row.
C6_EmptyEmailFails ==
    [][(op' = "add_client" /\ args'.email = <<>>) =>
          (ret' = -1 /\ clients' = clients)]_vars

UpdateClientEffect ==
    (op' = "update_client") =>
        LET id == args'.client_id
            kw == args'.kwargs
        IN  /\ phones' = phones
            /\ id \notin ClientIdsOf(clients) =>
                 (ret' = FALSE /\ clients' = clients)
            /\ (id \in ClientIdsOf(clients) /\ SuppliesField(kw)) =>
                 LET old == CHOOSE c \in clients : c.client_id = id
                     new == [k \in DOMAIN old |->
                               IF k \in DOMAIN kw /\ k \in {"first_name", "last_name", "email"}
                               THEN kw[k] ELSE old[k]]
                     collides == /\ "email" \in DOMAIN kw
                                 /\ \E c \in clients :
                                       c.client_id # id /\ c.email = kw.email
                 IN  IF collides
                     THEN ret' = FALSE /\ clients' = clients
                     ELSE clients' = (clients \ {old}) \cup {new}

\* C7: update_client on an existing client with recognized fields changes
\* exactly the supplied columns of that one row and nothing else; when the
\* new email is another client's it returns false and no row changes; on a
\* missing client it returns false and changes nothing.
C7_UpdateChangesOnlySupplied == [][UpdateClientEffect]_vars

\* update_client was refused because the new email is another client's,
\* while a second column was supplied with a value the row does not hold.
C7_Witness ==
    /\ op = "update_client"
    /\ ret = FALSE
    /\ "email" \in DOMAIN args.kwargs
    /\ "first_name" \in DOMAIN args.kwargs
    /\ \E c, d \in clients :
          /\ c.client_id = args.client_id
          /\ c.first_name # args.kwargs.first_name
          /\ d.client_id # args.client_id
          /\ d.email = args.kwargs.email

DeletePhoneEffect ==
    (op' = "delete_phone") =>
        LET id == args'.client_id
            number == args'.phone
            match == /\ id \in ClientIdsOf(clients)
                     /\ \E i \in DOMAIN phones :
                           phones[i].client_id = id /\ phones[i].phone_number = number
        IN  /\ ret' = match
            /\ clients' = clients
            /\ IF match
               THEN /\ Len(phones') = Len(phones) - 1
                    /\ phones' = SelectSeq(phones, LAMBDA r :
                           ~(r.client_id = id /\ r.phone_number = number))
               ELSE phones' = phones

GetClientAfterDelete ==
    (op' = "delete_phone" /\ ret' = TRUE) =>
        LET got == GetClientResult(clients', phones', args'.client_id)
        IN  /\ got # NoResult
            /\ CompletePhones(phones', got[1])

\* C8: delete_phone returns true exactly when the client exists and a row
\* matches both the id and the number, and then deletes exactly that row;
\* otherwise it returns false and changes nothing; after a successful
\* delete_phone, get_client_info of that client lists exactly the numbers it
\* still owns, also when the deleted number was its last.
C8_DeletePhoneThenGet == [][DeletePhoneEffect /\ GetClientAfterDelete]_vars

ContainsText(t, part) ==
    \E i \in 0..(Len(t) - Len(part)) : SubSeq(t, i + 1, i + Len(part)) = part

ContainsFolded(t, part) == ContainsText(LowerText(t), LowerText(part))

LiteralMatch(c, ph, kwargs) ==
    /\ \A k \in DOMAIN kwargs \cap {"first_name", "last_name", "email"} :
          ContainsFolded(c[k], kwargs[k])
    /\ "phone" \in DOMAIN kwargs =>
          \E n \in OwnedNumbers(ph, c.client_id) : ContainsFolded(n, kwargs.phone)

\* C9: for a non-empty filter set find_client returns a client exactly when
\* every supplied value is a case-insensitive literal substring of the
\* column it names and, for phone, of a number the client owns; also for
\* values that hold % or _.
C9_FindIsLiteralSubstring ==
    (op = "find_client" /\ SuppliesFilter(args.kwargs)) =>
        { ret[i].client_id : i \in DOMAIN ret } =
            { c.client_id : c \in { d \in clients : LiteralMatch(d, phones, args.kwargs) } }

InvalidInputEffect ==
    /\ (op' = "find_client" /\ ~SuppliesFilter(args'.kwargs)) =>
          (ret' = <<>> /\ clients' = clients /\ phones' = phones)
    /\ (op' = "update_client" /\ ~SuppliesField(args'.kwargs)) =>
          (ret' = FALSE /\ clients' = clients /\ phones' = phones)

\* C10: find_client with no recognized filter returns the empty list and
\* update_client with no recognized field returns false; neither changes a
\* row of either table.
C10_InvalidInputIsNoOp == [][InvalidInputEffect]_vars

\* find_client was called with only a key it does not know while clients
\* exist.
C10_Witness ==
    /\ op = "find_client"
    /\ args.kwargs # <<>>
    /\ ~SuppliesFilter(args.kwargs)
    /\ clients # {}
    /\ ret = <<>>

\* Every id handed out so far is at most the value of the sequence, and the
\* sequence never steps back.
IdsSoFarBelowSequence ==
    /\ clients_seq' >= clients_seq
    /\ (op' = "add_client" /\ ret' # -1) => ret' <= clients_seq'
    /\ \A c \in clients' : c.client_id <= clients_seq'

\* C11: across failed creates and deletions, every successful add_client
\* returns an id strictly greater than every id a successful add_client
\* returned before (all of which the sequence has passed), so no id is
\* reused.
C11_IdsStrictlyIncrease ==
    [][/\ IdsSoFarBelowSequence
       /\ (op' = "add_client" /\ ret' # -1) => ret' > clients_seq]_vars

\* add_client succeeded with id 3 after the sequence had passed 2 for a
\* client that is not in the table (its create was refused, or it was
\* deleted), while client 1 is still there.
C11_Witness ==
    /\ op = "add_client"
    /\ ret = 3
    /\ before.clients = 1
    /\ ClientIdsOf(clients) = {1, 3}

AddClientWithPhonesEffect ==
    (/\ op' = "add_client"
     /\ args'.phones # NoneList
     /\ ~\E c \in clients : c.email = args'.email) =>
        LET fresh == { n \in Elems(args'.phones) : ~NumberOwned(phones, n) }
        IN  /\ ret' # -1
            /\ ClientIdsOf(clients') = ClientIdsOf(clients) \cup {ret'}
            /\ ret' \notin ClientIdsOf(clients)
            /\ OwnedNumbers(phones', ret') = fresh
            /\ Len(phones') = Len(phones) + Cardinality(fresh)
            /\ SelectSeq(phones', LAMBDA r : r.client_id # ret') = phones

\* C12: when add_client is given a phones list, a number that collides
\* (with another client's phone or with an earlier number of the list)
\* does not abort the call: the client row is kept, its id is returned, the
\* remaining numbers are still attempted, and the client ends up owning
\* exactly the supplied numbers that no client owned when they were tried.
C12_PhoneCollisionDoesNotAbort == [][AddClientWithPhonesEffect]_vars

\* add_client was given two numbers; the first is another client's and was
\* refused, the second was still added.
C12_Witness ==
    /\ op = "add_client"
    /\ ret # -1
    /\ Len(args.phones) = 2
    /\ \E i \in DOMAIN phones :
          /\ phones[i].phone_number = args.phones[1]
          /\ phones[i].client_id # ret
    /\ \E i \in DOMAIN phones :
          /\ phones[i].phone_number = args.phones[2]
          /\ phones[i].client_id = ret

\* The program has stopped: it returned to the entry point or it ended on
\* an exception nobody caught.
Stopped == driver.pc \in {"ended", "raised"}

\* C13: in every run of the driver in which the connection was opened, the
\* connection is released, and released exactly once, by the time the
\* program stops, also when an operation in between failed or raised.
C13_ConnectionReleasedOnce ==
    (Stopped /\ driver.connection # "none") =>
        (driver.connection = "closed" /\ driver.closes = 1)
====
